---- MODULE Spec2Model ----
(***************************************************************************)
(* Model of the mock-specification parser (src/parser.go).                 *)
(*                                                                         *)
(* The decoded YAML document is a tree of tagged nodes.  A Go              *)
(* map[string]any is a TLA+ function whose domain is the set of keys that  *)
(* are present, a Go []any is a sequence.  Every builder of parser.go is   *)
(* an operator returning [err, val]; the iteration of a definitions map,   *)
(* whose order Go leaves unspecified, is one action per entry.             *)
(***************************************************************************)
EXTENDS Integers, Sequences, FiniteSets, TLC

VARIABLES input, pc, todo, spec, err

vars == <<input, pc, todo, spec, err>>

----------------------------------------------------------------------------
(* The generic document tree produced by yaml.Unmarshal into `any`.        *)

StrN(s) == [t |-> "str", sv |-> s]
IntN(i) == [t |-> "int", iv |-> i]
NullN == [t |-> "null"]
SeqN(s) == [t |-> "seq", items |-> s]
MapN(m) == [t |-> "map", m |-> m]

EmptyMap == <<>>

----------------------------------------------------------------------------
(* Errors.  A panic is not an error value: it is the abnormal termination  *)
(* of Parse, recorded here so that it can be told apart from a return.     *)

NoErr == [kind |-> "none", group |-> "", ref |-> ""]
errInvalidInput == [kind |-> "invalid", group |-> "", ref |-> ""]
errObjectMustHaveSingleKey == [kind |-> "singlekey", group |-> "", ref |-> ""]
errUnknownDefinitionWithName(group, ref) == [kind |-> "unknown", group |-> group, ref |-> ref]
Panic == [kind |-> "panic", group |-> "", ref |-> ""]

Ok(v) == [err |-> NoErr, val |-> v]
Fail(e) == [err |-> e, val |-> <<>>]

----------------------------------------------------------------------------
(* Structural extraction utilities.                                        *)

extractString(in, name) ==
    IF name \notin DOMAIN in
    THEN [err |-> NoErr, ok |-> FALSE, val |-> ""]
    ELSE IF in[name].t # "str"
         THEN [err |-> errInvalidInput, ok |-> FALSE, val |-> ""]
         ELSE [err |-> NoErr, ok |-> TRUE, val |-> in[name].sv]

extractInt(in, name) ==
    IF name \notin DOMAIN in
    THEN [err |-> NoErr, ok |-> FALSE, val |-> 0]
    ELSE IF in[name].t # "int"
         THEN [err |-> errInvalidInput, ok |-> FALSE, val |-> 0]
         ELSE [err |-> NoErr, ok |-> TRUE, val |-> in[name].iv]

\* What follows a call that returned r: the error of r, or F applied to r.
Bind(r, F(_)) == IF r.err # NoErr THEN Fail(r.err) ELSE F(r)

fillString(target, in, name) ==
    Bind(extractString(in, name), LAMBDA r : IF ~r.ok THEN Ok(target) ELSE Ok(r.val))

fillInt(target, in, name) ==
    Bind(extractInt(in, name), LAMBDA r : IF ~r.ok THEN Ok(target) ELSE Ok(r.val))

\* targets: field name -> current value.  Every failure of fillString is the
\* same error, so the order in which Go walks the targets map is immaterial.
fillStrings(targets, in) ==
    IF \E name \in DOMAIN targets : fillString(targets[name], in, name).err # NoErr
    THEN Fail(errInvalidInput)
    ELSE Ok([name \in DOMAIN targets |-> fillString(targets[name], in, name).val])

\* isnil: the Go result is the nil map (the field is absent).
extractStringMap(in, name) ==
    IF name \notin DOMAIN in
    THEN [err |-> NoErr, isnil |-> TRUE, val |-> EmptyMap]
    ELSE IF in[name].t # "map"
         THEN [err |-> errInvalidInput, isnil |-> TRUE, val |-> EmptyMap]
         ELSE [err |-> NoErr, isnil |-> FALSE, val |-> in[name].m]

\* isnil: the Go result is the nil slice (the field is absent); `[]` decodes
\* to an empty slice that is not nil.
extractSliceOfAny(in, name) ==
    IF name \notin DOMAIN in
    THEN [err |-> NoErr, isnil |-> TRUE, val |-> <<>>]
    ELSE IF in[name].t # "seq"
         THEN [err |-> errInvalidInput, isnil |-> TRUE, val |-> <<>>]
         ELSE [err |-> NoErr, isnil |-> FALSE, val |-> in[name].items]

----------------------------------------------------------------------------
(* Definition registry resolver.                                           *)

getStepsByReference(definitions, refName) ==
    IF refName \notin DOMAIN definitions.Steps
    THEN Fail(errUnknownDefinitionWithName("steps", refName))
    ELSE Ok(definitions.Steps[refName])

getFiltersByReference(definitions, refName) ==
    IF refName \notin DOMAIN definitions.Filters
    THEN Fail(errUnknownDefinitionWithName("filters", refName))
    ELSE Ok(definitions.Filters[refName])

\* Mutant: an absent name yields the empty sequence instead of the error.
getConditionsByReference_Nil(definitions, refName) ==
    IF refName \notin DOMAIN definitions.Conditions
    THEN Ok(<<>>)
    ELSE Ok(definitions.Conditions[refName])

getConditionsByReference(definitions, refName) ==
    IF refName \notin DOMAIN definitions.Conditions
    THEN Fail(errUnknownDefinitionWithName("conditions", refName))
    ELSE Ok(definitions.Conditions[refName])

nilHeaders == EmptyMap

emptyResponse == [Status |-> 0, Format |-> "", Headers |-> nilHeaders, Body |-> ""]

\* Mutant: an absent response resolves to the empty Response.
getResponseByReference_Empty(definitions, refName) ==
    IF refName \notin DOMAIN definitions.Responses
    THEN Ok(emptyResponse)
    ELSE Ok(definitions.Responses[refName])

getResponseByReference(definitions, refName) ==
    IF refName \notin DOMAIN definitions.Responses
    THEN Fail(errUnknownDefinitionWithName("responses", refName))
    ELSE Ok(definitions.Responses[refName])

----------------------------------------------------------------------------
(* Entity builders.                                                        *)

\* The parameters of a step or a check: the mapping itself, or the value
\* wrapped under the key "value".
Parameters(rParams) ==
    IF rParams.t = "map" THEN rParams.m ELSE [value |-> rParams]

createSteps(rStepItem, definitions) ==
    IF Cardinality(DOMAIN rStepItem) > 1 THEN Fail(errObjectMustHaveSingleKey)
    ELSE Bind(extractString(rStepItem, "$ref"), LAMBDA ref :
         IF ref.ok THEN getStepsByReference(definitions, ref.val)
         ELSE Ok([i \in 1..Cardinality(DOMAIN rStepItem) |->
                    LET rStepOperation == CHOOSE k \in DOMAIN rStepItem : TRUE IN
                    [Operation |-> rStepOperation,
                     Parameters |-> Parameters(rStepItem[rStepOperation])]]))

fillStepsItem(steps, rStepItem, definitions) ==
    Bind(createSteps(rStepItem, definitions), LAMBDA newSteps : Ok(steps \o newSteps.val))

RECURSIVE fillStepsItemsLoop(_, _, _, _)
fillStepsItemsLoop(steps, rStepItems, i, definitions) ==
    IF i > Len(rStepItems) THEN Ok(steps)
    ELSE IF rStepItems[i].t # "map" THEN Fail(errInvalidInput)
    ELSE Bind(fillStepsItem(steps, rStepItems[i].m, definitions), LAMBDA r :
              fillStepsItemsLoop(r.val, rStepItems, i + 1, definitions))

fillStepsItems(steps, rStepItems, definitions) ==
    IF Len(rStepItems) = 0 THEN Fail(errInvalidInput)
    ELSE fillStepsItemsLoop(steps, rStepItems, 1, definitions)

\* The loop over the `steps` list of one filter (createFilters, lines 372-384).
RECURSIVE createFiltersSteps(_, _, _, _)
createFiltersSteps(steps, rSteps, i, definitions) ==
    IF i > Len(rSteps) THEN Ok(steps)
    ELSE IF rSteps[i].t # "map" THEN Fail(errInvalidInput)
    ELSE Bind(createSteps(rSteps[i].m, definitions), LAMBDA r :
              createFiltersSteps(steps \o r.val, rSteps, i + 1, definitions))

createFilters(definitions, rFilterItem) ==
    Bind(extractString(rFilterItem, "$ref"), LAMBDA ref :
    IF ref.ok THEN getFiltersByReference(definitions, ref.val)
    ELSE Bind(fillStrings([source |-> "", target |-> ""], rFilterItem), LAMBDA strs :
         IF strs.val.source = "" THEN Fail(errInvalidInput)
         ELSE Bind(extractSliceOfAny(rFilterItem, "steps"), LAMBDA rSteps :
              Bind(IF rSteps.isnil THEN Ok(<<>>)
                   ELSE createFiltersSteps(<<>>, rSteps.val, 1, definitions), LAMBDA steps :
                   Ok(<<[Source |-> strs.val.source,
                         Target |-> strs.val.target,
                         Steps |-> steps.val]>>)))))

fillFiltersItem(filters, rFilterItem, definitions) ==
    Bind(createFilters(definitions, rFilterItem), LAMBDA newFilters :
         Ok(filters \o newFilters.val))

RECURSIVE fillFiltersItemsLoop(_, _, _, _)
fillFiltersItemsLoop(filters, rFilterItems, i, definitions) ==
    IF i > Len(rFilterItems) THEN Ok(filters)
    ELSE IF rFilterItems[i].t # "map" THEN Fail(errInvalidInput)
    ELSE Bind(fillFiltersItem(filters, rFilterItems[i].m, definitions), LAMBDA r :
              fillFiltersItemsLoop(r.val, rFilterItems, i + 1, definitions))

\* Mutant: an empty list of filter items is accepted.
fillFiltersItems_NoLenCheck(filters, rFilterItems, definitions) ==
    fillFiltersItemsLoop(filters, rFilterItems, 1, definitions)

fillFiltersItems(filters, rFilterItems, definitions) ==
    IF Len(rFilterItems) = 0 THEN Fail(errInvalidInput)
    ELSE fillFiltersItemsLoop(filters, rFilterItems, 1, definitions)

RECURSIVE createChecksLoop(_, _, _)
createChecksLoop(checks, rChecks, i) ==
    IF i > Len(rChecks) THEN Ok(checks)
    ELSE IF rChecks[i].t # "map" THEN Fail(errInvalidInput)
    ELSE IF Cardinality(DOMAIN rChecks[i].m) # 1 THEN Fail(errObjectMustHaveSingleKey)
    ELSE LET rCheckName == CHOOSE k \in DOMAIN rChecks[i].m : TRUE IN
         createChecksLoop(Append(checks, [Name |-> rCheckName,
                                          Parameters |-> Parameters(rChecks[i].m[rCheckName])]),
                          rChecks, i + 1)

createChecks(rChecks) == createChecksLoop(<<>>, rChecks, 1)

emptyCondition == [Any |-> <<>>, All |-> <<>>, Source |-> "", Checks |-> <<>>]

RECURSIVE createConditions(_, _)
RECURSIVE fillConditionsItems(_, _, _)
RECURSIVE fillConditionsItemsLoop(_, _, _, _)

fillConditionsItem(conditions, rConditionItem, definitions) ==
    Bind(createConditions(definitions, rConditionItem), LAMBDA newConditions :
         Ok(conditions \o newConditions.val))

fillConditionsItemsLoop(conditions, rConditionItems, i, definitions) ==
    IF i > Len(rConditionItems) THEN Ok(conditions)
    ELSE IF rConditionItems[i].t # "map" THEN Fail(errInvalidInput)
    ELSE Bind(fillConditionsItem(conditions, rConditionItems[i].m, definitions), LAMBDA r :
              fillConditionsItemsLoop(r.val, rConditionItems, i + 1, definitions))

\* Mutant: an empty list of condition items is accepted.
fillConditionsItems_NoLenCheck(conditions, rConditionItems, definitions) ==
    fillConditionsItemsLoop(conditions, rConditionItems, 1, definitions)

fillConditionsItems(conditions, rConditionItems, definitions) ==
    IF Len(rConditionItems) = 0 THEN Fail(errInvalidInput)
    ELSE fillConditionsItemsLoop(conditions, rConditionItems, 1, definitions)

\* The source+checks shape (createConditions, lines 423-442).
createConditionsSource(rConditionItem) ==
    Bind(fillString("", rConditionItem, "source"), LAMBDA src :
    IF src.val = "" THEN Fail(errInvalidInput)
    ELSE Bind(extractSliceOfAny(rConditionItem, "checks"), LAMBDA rChecks :
         IF rChecks.isnil THEN Fail(errInvalidInput)
         ELSE Bind(createChecks(rChecks.val), LAMBDA checks :
              Ok(<<[emptyCondition EXCEPT !.Source = src.val,
                                          !.Checks = checks.val]>>))))

\* The `all` shape and what follows it (createConditions, lines 412-442).
createConditionsAll(definitions, rConditionItem) ==
    Bind(extractSliceOfAny(rConditionItem, "all"), LAMBDA sliceAll :
    IF ~sliceAll.isnil
    THEN Bind(fillConditionsItems(<<>>, sliceAll.val, definitions), LAMBDA r :
              Ok(<<[emptyCondition EXCEPT !.All = r.val]>>))
    ELSE createConditionsSource(rConditionItem))

\* Mutant: `all` is probed before `any`.
createConditions_AllFirst(definitions, rConditionItem) ==
    Bind(extractString(rConditionItem, "$ref"), LAMBDA ref :
    IF ref.ok THEN getConditionsByReference(definitions, ref.val)
    ELSE Bind(extractSliceOfAny(rConditionItem, "all"), LAMBDA sliceAll :
         IF ~sliceAll.isnil
         THEN Bind(fillConditionsItems(<<>>, sliceAll.val, definitions), LAMBDA r :
                   Ok(<<[emptyCondition EXCEPT !.All = r.val]>>))
         ELSE Bind(extractSliceOfAny(rConditionItem, "any"), LAMBDA sliceAny :
              IF ~sliceAny.isnil
              THEN Bind(fillConditionsItems(<<>>, sliceAny.val, definitions), LAMBDA r :
                        Ok(<<[emptyCondition EXCEPT !.Any = r.val]>>))
              ELSE createConditionsSource(rConditionItem))))

createConditions(definitions, rConditionItem) ==
    Bind(extractString(rConditionItem, "$ref"), LAMBDA ref :
    IF ref.ok THEN getConditionsByReference(definitions, ref.val)
    ELSE Bind(extractSliceOfAny(rConditionItem, "any"), LAMBDA sliceAny :
         IF ~sliceAny.isnil
         THEN Bind(fillConditionsItems(<<>>, sliceAny.val, definitions), LAMBDA r :
                   Ok(<<[emptyCondition EXCEPT !.Any = r.val]>>))
         ELSE createConditionsAll(definitions, rConditionItem)))

\* The loop over the values of one header (createResponse, lines 506-513):
\* a value that is not a sequence is an error, an element that is not a
\* string makes the unchecked type assertion headerValue.(string) panic.
headerValuesOutcome(headerValues) ==
    IF headerValues.t # "seq" THEN Fail(errInvalidInput)
    ELSE IF \E i \in 1..Len(headerValues.items) : headerValues.items[i].t # "str"
         THEN Fail(Panic)
         ELSE Ok([i \in 1..Len(headerValues.items) |-> headerValues.items[i].sv])

\* The loop over the headers map (createResponse, lines 503-514), walked in
\* the order `order` gives to its keys; the first header that fails ends it.
RECURSIVE createResponseHeaders(_, _, _, _)
createResponseHeaders(headers, rHeaders, order, i) ==
    IF i > Len(order) THEN Ok(headers)
    ELSE IF order[i] \notin DOMAIN rHeaders
         THEN createResponseHeaders(headers, rHeaders, order, i + 1)
         ELSE Bind(headerValuesOutcome(rHeaders[order[i]]), LAMBDA values :
                   createResponseHeaders((order[i] :> values.val) @@ headers,
                                         rHeaders, order, i + 1))

\* The map `headers` is built in a local variable that is never assigned to
\* response.Headers: the returned Response keeps its nil Headers.
createResponse(rResponse, definitions, order) ==
    Bind(extractString(rResponse, "$ref"), LAMBDA ref :
    IF ref.ok THEN getResponseByReference(definitions, ref.val)
    ELSE Bind(fillStrings([format |-> "", body |-> ""], rResponse), LAMBDA strs :
         Bind(fillInt(0, rResponse, "status"), LAMBDA status :
         Bind(extractStringMap(rResponse, "headers"), LAMBDA rHeaders :
         Bind(IF rHeaders.isnil THEN Ok(nilHeaders)
              ELSE createResponseHeaders(EmptyMap, rHeaders.val, order, 1), LAMBDA headers :
              Ok([emptyResponse EXCEPT !.Format = strs.val.format,
                                       !.Body = strs.val.body,
                                       !.Status = status.val]))))))

fillResponseItem(response, rResponse, definitions, order) ==
    createResponse(rResponse, definitions, order)

\* A *Response: the nil pointer, or a pointer to a Response.
nilResponse == <<>>
PtrTo(response) == <<response>>

\* Mutant: the final check of createEndpoint is missing.
incompleteEndpoint_Never(endpoints, response) == FALSE

\* The final check of createEndpoint (line 575).
incompleteEndpoint(endpoints, response) ==
    Len(endpoints) = 0 /\ response = nilResponse

RECURSIVE createEndpoint(_, _, _)
RECURSIVE fillEndpoints(_, _, _, _, _)

createEndpoint(rEndpoint, definitions, order) ==
    Bind(fillStrings([description |-> "", host |-> "", method |-> "",
                      path |-> "", bodyFormat |-> ""], rEndpoint), LAMBDA strs :
    Bind(extractSliceOfAny(rEndpoint, "filters"), LAMBDA rFilterItems :
    Bind(IF rFilterItems.isnil THEN Ok(<<>>)
         ELSE fillFiltersItems(<<>>, rFilterItems.val, definitions), LAMBDA filters :
    Bind(extractSliceOfAny(rEndpoint, "conditions"), LAMBDA rConditionItems :
    Bind(IF rConditionItems.isnil THEN Ok(<<>>)
         ELSE fillConditionsItems(<<>>, rConditionItems.val, definitions), LAMBDA conditions :
    Bind(extractSliceOfAny(rEndpoint, "endpoints"), LAMBDA rEndpointItems :
    Bind(IF rEndpointItems.isnil THEN Ok(<<>>)
         ELSE fillEndpoints(<<>>, rEndpointItems.val, 1, definitions, order), LAMBDA endpoints :
    Bind(extractStringMap(rEndpoint, "response"), LAMBDA rResponse :
    Bind(IF rResponse.isnil THEN Ok(nilResponse)
         ELSE Bind(fillResponseItem(emptyResponse, rResponse.val, definitions, order),
                   LAMBDA r : Ok(PtrTo(r.val))), LAMBDA response :
    IF incompleteEndpoint(endpoints.val, response.val)
    THEN Fail(errInvalidInput)
    ELSE Ok([Description |-> strs.val.description,
             Host |-> strs.val.host,
             Method |-> strs.val.method,
             Path |-> strs.val.path,
             BodyFormat |-> strs.val.bodyFormat,
             Filters |-> filters.val,
             Conditions |-> conditions.val,
             Endpoints |-> endpoints.val,
             Response |-> response.val]))))))))))

fillEndpoints(endpoints, rEndpoints, i, definitions, order) ==
    IF i > Len(rEndpoints) THEN Ok(endpoints)
    ELSE IF rEndpoints[i].t # "map" THEN Fail(errInvalidInput)
    ELSE Bind(createEndpoint(rEndpoints[i].m, definitions, order), LAMBDA endpoint :
              fillEndpoints(Append(endpoints, endpoint.val), rEndpoints, i + 1,
                            definitions, order))

----------------------------------------------------------------------------
(* Registry population: the body of one iteration of each fill...Map loop. *)
(* Each returns the definitions after the iteration, or the error.         *)

\* Mutant: the entry is stored, empty, before its body is built.
fillStepsMap_StoreFirst(definitions, rSteps, stepName) ==
    IF rSteps[stepName].t # "seq" THEN Fail(errInvalidInput)
    ELSE Bind(fillStepsItems(<<>>, rSteps[stepName].items,
                             [definitions EXCEPT !.Steps = (stepName :> <<>>) @@ @]),
              LAMBDA stepsList :
              Ok([definitions EXCEPT !.Steps = (stepName :> stepsList.val) @@ @]))

fillStepsMap(definitions, rSteps, stepName) ==
    IF rSteps[stepName].t # "seq" THEN Fail(errInvalidInput)
    ELSE Bind(fillStepsItems(<<>>, rSteps[stepName].items, definitions), LAMBDA stepsList :
              Ok([definitions EXCEPT !.Steps = (stepName :> stepsList.val) @@ @]))

fillFiltersMap(definitions, rFilters, filterName) ==
    IF rFilters[filterName].t # "seq" THEN Fail(errInvalidInput)
    ELSE Bind(fillFiltersItems(<<>>, rFilters[filterName].items, definitions),
              LAMBDA filtersList :
              Ok([definitions EXCEPT !.Filters = (filterName :> filtersList.val) @@ @]))

fillConditionsMap(definitions, rConditions, conditionName) ==
    IF rConditions[conditionName].t # "seq" THEN Fail(errInvalidInput)
    ELSE Bind(fillConditionsItems(<<>>, rConditions[conditionName].items, definitions),
              LAMBDA conditionsList :
              Ok([definitions EXCEPT
                    !.Conditions = (conditionName :> conditionsList.val) @@ @]))

fillResponsesMap(definitions, rResponses, responseName, order) ==
    IF rResponses[responseName].t # "map" THEN Fail(errInvalidInput)
    ELSE Bind(fillResponseItem(emptyResponse, rResponses[responseName].m, definitions, order),
              LAMBDA response :
              Ok([definitions EXCEPT !.Responses = (responseName :> response.val) @@ @]))

createEmpty ==
    [Definitions |-> [Steps |-> EmptyMap, Filters |-> EmptyMap,
                      Conditions |-> EmptyMap, Responses |-> EmptyMap],
     Endpoints |-> <<>>]

----------------------------------------------------------------------------
(* Documents.                                                              *)

MaxItems == 2
MaxNodes == 3

Names == {"a", "b"}

\* Sequences over S of length at most n.
RECURSIVE SeqsUpTo(_, _)
SeqsUpTo(S, n) ==
    IF n = 0 THEN {<<>>}
    ELSE LET shorter == SeqsUpTo(S, n - 1) IN
         shorter \cup {Append(q, x) : q \in {r \in shorter : Len(r) = n - 1}, x \in S}

Ref(n) == MapN("$ref" :> StrN(n))

\* The maps with at most the key `key`, its value taken from Values.
Optional(key, Values) == {EmptyMap} \cup {key :> v : v \in Values}

(* steps *)
validStep == MapN([upper |-> NullN])

StepItemNodes ==
    {Ref(n) : n \in Names} \cup
    { validStep,
      MapN([trim |-> MapN([chars |-> IntN(1)])]),
      MapN(EmptyMap),
      MapN([upper |-> NullN, trim |-> NullN]),
      MapN("$ref" :> IntN(1)),
      MapN(("$ref" :> StrN("a")) @@ [upper |-> NullN]),
      StrN("x") }

\* The first item of a definition ranges over all the item shapes, the items
\* after it over a few.
StepItemSmall == {validStep, Ref("a"), StrN("x")}

StepDefNodes ==
    {SeqN(<<x>> \o q) : x \in StepItemNodes, q \in SeqsUpTo(StepItemSmall, MaxItems - 1)}
    \cup {SeqN(<<>>), StrN("x")}

StepDefSmall ==
    {SeqN(<<validStep>>), SeqN(<<Ref("a")>>), SeqN(<<Ref("b")>>), SeqN(<<>>)}

(* filters *)
validFilter == MapN([source |-> StrN("s")])

FilterItemNodes ==
    {Ref(n) : n \in Names} \cup
    { validFilter,
      MapN([source |-> StrN("s"), target |-> StrN("t"), steps |-> SeqN(<<validStep>>)]),
      MapN([source |-> StrN("s"), steps |-> SeqN(<<>>)]),
      MapN([source |-> StrN("s"), steps |-> SeqN(<<Ref("a"), validStep>>)]),
      MapN([source |-> StrN("s"), steps |-> SeqN(<<StrN("x")>>)]),
      MapN([source |-> StrN("s"), steps |-> StrN("x")]),
      MapN([source |-> StrN("")]),
      MapN([target |-> StrN("t")]),
      MapN([source |-> IntN(1)]),
      MapN(("$ref" :> StrN("a")) @@ [source |-> IntN(1)]),
      StrN("x") }

FilterItemSmall == {validFilter, Ref("a"), StrN("x")}

FilterDefNodes ==
    {SeqN(<<x>> \o q) : x \in FilterItemNodes, q \in SeqsUpTo(FilterItemSmall, MaxItems - 1)}
    \cup {SeqN(<<>>), StrN("x")}

FilterDefSmall ==
    {SeqN(<<validFilter>>), SeqN(<<Ref("a")>>), SeqN(<<Ref("b")>>), SeqN(<<>>)}

(* conditions: trees and forests by their number of nodes *)
validCheck == MapN([equals |-> StrN("admin")])
validCondition == MapN([source |-> StrN("role"), checks |-> SeqN(<<validCheck>>)])

ConditionLeaves ==
    {Ref(n) : n \in Names} \cup
    { validCondition,
      MapN([source |-> StrN("role"), checks |-> SeqN(<<>>)]),
      StrN("x") }

RECURSIVE ConditionTrees(_)
RECURSIVE ConditionForests(_)
ConditionTrees(n) ==
    (IF n = 1 THEN ConditionLeaves ELSE {}) \cup
    {MapN([any |-> SeqN(f)]) : f \in ConditionForests(n - 1)} \cup
    {MapN([all |-> SeqN(f)]) : f \in ConditionForests(n - 1)}

ConditionForests(n) ==
    IF n = 0 THEN {<<>>}
    ELSE UNION {{<<tr>> \o f : tr \in ConditionTrees(k), f \in ConditionForests(n - k)} :
                k \in 1..n}

ConditionLists == UNION {ConditionForests(n) : n \in 0..MaxNodes}

\* The entry of a definition counts as a node.
ConditionDefNodes ==
    {SeqN(q) : q \in UNION {ConditionForests(n) : n \in 0..(MaxNodes - 1)}} \cup {StrN("x")}

ConditionDefSmall ==
    {SeqN(<<validCondition>>), SeqN(<<Ref("a")>>), SeqN(<<Ref("b")>>),
     SeqN(<<MapN([any |-> SeqN(<<Ref("a")>>)])>>)}

\* One condition mapping for every way to have, or not to have, each of the
\* keys $ref, any, all, source and checks.

ConditionKeyNodes ==
    {MapN(r @@ y @@ l @@ sc) :
        r \in Optional("$ref", {StrN("a"), StrN("b"), IntN(1)}),
        y \in Optional("any", {SeqN(<<validCondition>>), SeqN(<<>>), StrN("x")}),
        l \in Optional("all", {SeqN(<<validCondition, validCondition>>), SeqN(<<>>), StrN("x")}),
        sc \in {EmptyMap, validCondition.m, [source |-> IntN(1)],
                [source |-> StrN("role")],
                [source |-> StrN(""), checks |-> SeqN(<<validCheck>>)],
                [source |-> StrN("role"), checks |-> StrN("x")],
                [source |-> StrN("role"),
                 checks |-> SeqN(<<MapN([equals |-> NullN, differs |-> NullN])>>)]}}

(* responses *)
validResponse == MapN([status |-> IntN(200), body |-> StrN("ok")])

HeaderNodes ==
    { MapN(EmptyMap),
      MapN([X |-> SeqN(<<StrN("v")>>)]),
      MapN([X |-> SeqN(<<StrN("v"), StrN("w")>>), Y |-> SeqN(<<>>)]),
      MapN([X |-> StrN("v")]),
      MapN([X |-> SeqN(<<StrN("v"), IntN(1)>>)]),
      MapN([X |-> StrN("v"), Y |-> SeqN(<<IntN(1)>>)]),
      MapN([X |-> SeqN(<<StrN("v")>>), Y |-> NullN]),
      StrN("x") }

ResponseNodes ==
    {MapN(st @@ fm @@ bd @@ hd) :
        st \in Optional("status", {IntN(200), StrN("x")}),
        fm \in Optional("format", {StrN("json")}),
        bd \in Optional("body", {StrN("ok"), IntN(1)}),
        hd \in Optional("headers", HeaderNodes)} \cup
    {Ref(n) : n \in Names} \cup
    {MapN(("$ref" :> StrN("a")) @@ [status |-> IntN(200)]), MapN("$ref" :> NullN), StrN("x")}

ResponseDefSmall == {validResponse, Ref("a"), Ref("b")}

(* endpoints: trees and forests by their number of nodes *)
validEndpoint ==
    [path |-> StrN("/x"), method |-> StrN("GET"), response |-> validResponse]

EndpointLeaves ==
    { MapN(validEndpoint),
      MapN(EmptyMap),
      MapN([response |-> Ref("a")]),
      MapN([path |-> IntN(1), response |-> validResponse]),
      MapN([filters |-> SeqN(<<Ref("a")>>), conditions |-> SeqN(<<Ref("a")>>),
            response |-> validResponse]),
      StrN("x") }

RECURSIVE EndpointTrees(_)
RECURSIVE EndpointForests(_)
EndpointTrees(n) ==
    (IF n = 1 THEN EndpointLeaves ELSE {}) \cup
    {MapN([endpoints |-> SeqN(f)]) : f \in EndpointForests(n - 1)} \cup
    {MapN([endpoints |-> SeqN(f)] @@ validEndpoint) : f \in EndpointForests(n - 1)}

EndpointForests(n) ==
    IF n = 0 THEN {<<>>}
    ELSE UNION {{<<tr>> \o f : tr \in EndpointTrees(k), f \in EndpointForests(n - k)} :
                k \in 1..n}

EndpointLists == UNION {EndpointForests(n) : n \in 0..MaxNodes}

\* Endpoints with an empty list of filter or condition items, below a valid
\* sibling inside another endpoint.
EndpointsWithEmptyList ==
    {MapN([endpoints |-> SeqN(<<MapN(validEndpoint), MapN((key :> x) @@ validEndpoint)>>)]) :
        key \in {"filters", "conditions"},
        x \in {SeqN(<<>>), SeqN(<<MapN([any |-> SeqN(<<>>)])>>),
               SeqN(<<MapN([all |-> SeqN(<<>>)])>>)}}

(* whole documents *)
\* A definitions block in which `a` is a valid entry of every namespace.
validDefinitions ==
    [steps |-> MapN([a |-> SeqN(<<validStep>>)]),
     filters |-> MapN([a |-> SeqN(<<validFilter>>)]),
     conditions |-> MapN([a |-> SeqN(<<validCondition>>)]),
     responses |-> MapN([a |-> validResponse])]

\* An endpoint with the field `field` and a response.
EndpointWith(field, node) == MapN((field :> node) @@ [response |-> MapN(EmptyMap)])

Document(definitions, endpoints) ==
    MapN([definitions |-> MapN(definitions), endpoints |-> SeqN(endpoints)])

\* The documents Parse is run on.  In each family one part of the document
\* ranges over all its shapes and the rest over a few: a namespace with the
\* entry `a` and possibly `b`, or the list of endpoints.
StepsDocs(doc) ==
    \E x \in StepDefNodes, b \in Optional("b", StepDefSmall),
       d \in {EmptyMap,
              [filters |-> MapN([a |-> SeqN(<<MapN([source |-> StrN("s"),
                                                    steps |-> SeqN(<<Ref("a")>>)])>>)])]},
       e \in {<<>>,
              <<EndpointWith("filters",
                    SeqN(<<MapN([source |-> StrN("s"), steps |-> SeqN(<<Ref("b")>>)])>>))>>} :
        doc = Document([steps |-> MapN([a |-> x] @@ b)] @@ d, e)

FiltersDocs(doc) ==
    \E x \in FilterDefNodes, b \in Optional("b", FilterDefSmall),
       d \in {EmptyMap, [steps |-> validDefinitions.steps]},
       e \in {<<>>, <<EndpointWith("filters", SeqN(<<Ref("b")>>))>>} :
        doc = Document([filters |-> MapN([a |-> x] @@ b)] @@ d, e)

ConditionsDocs(doc) ==
    \E x \in ConditionDefNodes, b \in Optional("b", ConditionDefSmall),
       e \in {<<>>, <<EndpointWith("conditions", SeqN(<<Ref("b")>>))>>} :
        doc = Document([conditions |-> MapN([a |-> x] @@ b)], e)

ResponsesDocs(doc) ==
    \E x \in ResponseNodes, b \in Optional("b", ResponseDefSmall),
       e \in {<<>>, <<MapN([response |-> Ref("b")])>>} :
        doc = Document([responses |-> MapN([a |-> x] @@ b)], e)

EndpointsDocs(doc) ==
    \E d \in {EmptyMap, validDefinitions} :
        \/ \E e \in EndpointLists : doc = Document(d, e)
        \/ \E e \in EndpointsWithEmptyList : doc = Document(d, <<e>>)
        \/ \E q \in ConditionLists :
             doc = Document(d, <<EndpointWith("conditions", SeqN(q))>>)
        \/ \E c \in ConditionKeyNodes :
             doc = Document(d, <<EndpointWith("conditions", SeqN(<<c>>))>>)
        \/ \E f \in FilterDefNodes : doc = Document(d, <<EndpointWith("filters", f)>>)
        \/ \E r \in ResponseNodes : doc = Document(d, <<MapN([response |-> r])>>)

RootDocs ==
    { StrN("x"), SeqN(<<>>), MapN(EmptyMap),
      MapN([definitions |-> StrN("x")]),
      MapN([definitions |-> MapN(validDefinitions)]),
      MapN([endpoints |-> StrN("x")]),
      MapN([endpoints |-> SeqN(<<MapN(validEndpoint)>>)]),
      MapN([definitions |-> MapN(EmptyMap), endpoints |-> SeqN(<<>>)]) } \cup
    {MapN([definitions |-> MapN((g :> x) @@ validDefinitions)]) :
        g \in {"steps", "filters", "conditions", "responses"},
        x \in {StrN("x"), MapN(EmptyMap), NullN}}

Docs(doc) ==
    \/ StepsDocs(doc)
    \/ FiltersDocs(doc)
    \/ ConditionsDocs(doc)
    \/ ResponsesDocs(doc)
    \/ EndpointsDocs(doc)
    \/ doc \in RootDocs

----------------------------------------------------------------------------
(* The state machine of Parse.                                             *)

\* Mutant: the filters are populated before the steps.
Groups_FiltersFirst == <<"filters", "steps", "conditions", "responses">>

\* The namespaces in the order in which fillDefinitions populates them.
Groups == <<"steps", "filters", "conditions", "responses">>

\* pc of the loop over the entries of a namespace, and of what follows it.
LoopOf(g) ==
    CASE g = "steps" -> "fillStepsMap"
      [] g = "filters" -> "fillFiltersMap"
      [] g = "conditions" -> "fillConditionsMap"
      [] g = "responses" -> "fillResponsesMap"

After(g) ==
    LET i == CHOOSE k \in 1..Len(Groups) : Groups[k] = g IN
    IF i = Len(Groups) THEN "endpoints" ELSE Groups[i + 1]

\* The orders in which a map with the keys K can be walked.
Orders(K) ==
    {o \in [1..Cardinality(K) -> K] : \A i, j \in 1..Cardinality(K) : i # j => o[i] # o[j]}

HeaderNames == {"X", "Y"}

rDefinitions == input.m["definitions"].m

Init ==
    /\ Docs(input)
    /\ pc = "Parse"
    /\ todo = {}
    /\ spec = createEmpty
    /\ err = NoErr

\* Parse up to the first namespace: the root must be a mapping; fillSpec
\* extracts `definitions`.
Parse ==
    /\ pc = "Parse" /\ err = NoErr
    /\ spec' = createEmpty
    /\ todo' = {}
    /\ UNCHANGED input
    /\ IF input.t # "map"
       THEN err' = errInvalidInput /\ pc' = pc
       ELSE LET r == extractStringMap(input.m, "definitions") IN
            IF r.err # NoErr THEN err' = r.err /\ pc' = pc
            ELSE /\ err' = NoErr
                 /\ pc' = IF r.isnil THEN "endpoints" ELSE Groups[1]

\* fillDefinitions between two namespaces: extract the next one.
fillDefinitions ==
    /\ err = NoErr
    /\ \E i \in 1..Len(Groups) :
         /\ pc = Groups[i]
         /\ LET r == extractStringMap(rDefinitions, Groups[i]) IN
            IF r.err # NoErr
            THEN err' = r.err /\ pc' = pc /\ todo' = todo
            ELSE /\ err' = NoErr
                 /\ todo' = DOMAIN r.val
                 /\ pc' = IF DOMAIN r.val = {} THEN After(Groups[i]) ELSE LoopOf(Groups[i])
    /\ UNCHANGED <<input, spec>>

\* One iteration of a fill...Map loop that returned r.
MapIteration(g, name, r) ==
    /\ UNCHANGED input
    /\ IF r.err # NoErr
       THEN err' = r.err /\ UNCHANGED <<pc, todo, spec>>
       ELSE /\ err' = NoErr
            /\ spec' = [spec EXCEPT !.Definitions = r.val]
            /\ todo' = todo \ {name}
            /\ pc' = IF todo \ {name} = {} THEN After(g) ELSE pc

StepsMapIteration ==
    /\ pc = "fillStepsMap" /\ err = NoErr
    /\ \E stepName \in todo :
         MapIteration("steps", stepName,
                      fillStepsMap(spec.Definitions, rDefinitions["steps"].m, stepName))

FiltersMapIteration ==
    /\ pc = "fillFiltersMap" /\ err = NoErr
    /\ \E filterName \in todo :
         MapIteration("filters", filterName,
                      fillFiltersMap(spec.Definitions, rDefinitions["filters"].m, filterName))

ConditionsMapIteration ==
    /\ pc = "fillConditionsMap" /\ err = NoErr
    /\ \E conditionName \in todo :
         MapIteration("conditions", conditionName,
                      fillConditionsMap(spec.Definitions, rDefinitions["conditions"].m,
                                        conditionName))

ResponsesMapIteration ==
    /\ pc = "fillResponsesMap" /\ err = NoErr
    /\ \E responseName \in todo, order \in Orders(HeaderNames) :
         MapIteration("responses", responseName,
                      fillResponsesMap(spec.Definitions, rDefinitions["responses"].m,
                                       responseName, order))

\* fillSpec after fillEndpoints returned r; Parse returns.
EndpointsFilled(r) ==
    IF r.err # NoErr
    THEN err' = r.err /\ UNCHANGED <<pc, spec>>
    ELSE /\ err' = NoErr
         /\ pc' = "done"
         /\ spec' = [spec EXCEPT !.Endpoints = r.val]

\* The rest of fillSpec: extract `endpoints` and build them.
fillSpecEndpoints ==
    /\ pc = "endpoints" /\ err = NoErr
    /\ UNCHANGED <<input, todo>>
    /\ \E order \in Orders(HeaderNames) :
         EndpointsFilled(
             Bind(extractSliceOfAny(input.m, "endpoints"), LAMBDA rSpecEndpoints :
                  IF rSpecEndpoints.isnil THEN Ok(spec.Endpoints)
                  ELSE fillEndpoints(spec.Endpoints, rSpecEndpoints.val, 1,
                                     spec.Definitions, order)))

Next ==
    \/ Parse
    \/ fillDefinitions
    \/ StepsMapIteration
    \/ FiltersMapIteration
    \/ ConditionsMapIteration
    \/ ResponsesMapIteration
    \/ fillSpecEndpoints

Spec == Init /\ [][Next]_vars

\* Parse has returned a Spec.
Returned == pc = "done" /\ err = NoErr

\* Parse has ended: it returned a Spec, returned an error, or panicked.
Terminated == pc = "done" \/ err # NoErr

----------------------------------------------------------------------------
(* One whole run of Parse under given iteration orders: orders[g] is the   *)
(* order in which the loop of the namespace g walks its entries, and       *)
(* orders.headers the order of the loops over a headers map.  The result   *)
(* is the returned Spec, or the error.                                     *)

fillMap(g, definitions, rGroup, name, order) ==
    CASE g = "steps" -> fillStepsMap(definitions, rGroup, name)
      [] g = "filters" -> fillFiltersMap(definitions, rGroup, name)
      [] g = "conditions" -> fillConditionsMap(definitions, rGroup, name)
      [] g = "responses" -> fillResponsesMap(definitions, rGroup, name, order)

RECURSIVE fillMapLoop(_, _, _, _, _, _)
fillMapLoop(g, definitions, rGroup, names, i, order) ==
    IF i > Len(names) THEN Ok(definitions)
    ELSE Bind(fillMap(g, definitions, rGroup, names[i], order), LAMBDA r :
              fillMapLoop(g, r.val, rGroup, names, i + 1, order))

RECURSIVE fillDefinitionsWith(_, _, _, _)
fillDefinitionsWith(definitions, rDefs, i, orders) ==
    IF i > Len(Groups) THEN Ok(definitions)
    ELSE Bind(extractStringMap(rDefs, Groups[i]), LAMBDA rGroup :
         Bind(fillMapLoop(Groups[i], definitions, rGroup.val, orders[Groups[i]], 1,
                          orders.headers), LAMBDA r :
              fillDefinitionsWith(r.val, rDefs, i + 1, orders)))

fillSpecWith(definitions, doc, orders) ==
    Bind(extractSliceOfAny(doc, "endpoints"), LAMBDA rSpecEndpoints :
    IF rSpecEndpoints.isnil
    THEN Ok([Definitions |-> definitions, Endpoints |-> <<>>])
    ELSE Bind(fillEndpoints(<<>>, rSpecEndpoints.val, 1, definitions, orders.headers),
              LAMBDA endpoints :
              Ok([Definitions |-> definitions, Endpoints |-> endpoints.val])))

ParseWith(doc, orders) ==
    IF doc.t # "map" THEN Fail(errInvalidInput)
    ELSE Bind(extractStringMap(doc.m, "definitions"), LAMBDA rDefs :
         Bind(IF rDefs.isnil THEN Ok(createEmpty.Definitions)
              ELSE fillDefinitionsWith(createEmpty.Definitions, rDefs.val, 1, orders),
              LAMBDA definitions : fillSpecWith(definitions.val, doc.m, orders)))

----------------------------------------------------------------------------
(* What the document says, read without the parser.                        *)

Registry(g) ==
    CASE g = "steps" -> spec.Definitions.Steps
      [] g = "filters" -> spec.Definitions.Filters
      [] g = "conditions" -> spec.Definitions.Conditions
      [] g = "responses" -> spec.Definitions.Responses

GroupNames == {"steps", "filters", "conditions", "responses"}

\* The entries the document defines in the namespace g.
DocDefinitions(g) ==
    IF input.t = "map" /\ "definitions" \in DOMAIN input.m
    THEN IF input.m["definitions"].t = "map" /\ g \in DOMAIN input.m["definitions"].m
         THEN IF input.m["definitions"].m[g].t = "map"
              THEN input.m["definitions"].m[g].m
              ELSE EmptyMap
         ELSE EmptyMap
    ELSE EmptyMap

\* The top-level endpoints of the document.
DocEndpoints ==
    IF input.t = "map" /\ "endpoints" \in DOMAIN input.m
    THEN IF input.m["endpoints"].t = "seq" THEN input.m["endpoints"].items ELSE <<>>
    ELSE <<>>

\* The body of a definition of the namespace g that is nothing but a
\* reference to n.
RefBody(g, n) == IF g = "responses" THEN Ref(n) ELSE SeqN(<<Ref(n)>>)

\* An otherwise valid endpoint whose only reference is to n in the namespace g.
RefEndpoint(g, n) ==
    CASE g = "steps" ->
           EndpointWith("filters",
               SeqN(<<MapN([source |-> StrN("s"), steps |-> SeqN(<<Ref(n)>>)])>>))
      [] g = "filters" -> EndpointWith("filters", SeqN(<<Ref(n)>>))
      [] g = "conditions" -> EndpointWith("conditions", SeqN(<<Ref(n)>>))
      [] g = "responses" -> MapN([response |-> Ref(n)])

\* What the endpoint built from RefEndpoint(g, n) holds at the place of the
\* reference.
Resolved(g, endpoint) ==
    CASE g = "steps" -> endpoint.Filters[1].Steps
      [] g = "filters" -> endpoint.Filters
      [] g = "conditions" -> endpoint.Conditions
      [] g = "responses" -> endpoint.Response[1]

----------------------------------------------------------------------------
(* C1: in each of the four namespaces a $ref to a name that is in the      *)
(* registry when it is looked up resolves to exactly the stored value (the *)
(* whole sequence, or the one Response), and a $ref to a name that is not  *)
(* in it makes Parse fail with the unknown-definition error for that       *)
(* namespace and name: no Spec is returned and no empty entity is built.   *)
C1_RefResolves ==
    /\ err.kind = "unknown" =>
         err.group \in GroupNames /\ err.ref \notin DOMAIN Registry(err.group)
    /\ \A g \in GroupNames, n \in Names :
         /\ \A name \in DOMAIN Registry(g) :
              DocDefinitions(g)[name] = RefBody(g, n) =>
                  n \in DOMAIN Registry(g) /\ Registry(g)[name] = Registry(g)[n]
         /\ DocEndpoints = <<RefEndpoint(g, n)>> =>
              /\ Returned =>
                   /\ n \in DOMAIN Registry(g)
                   /\ Resolved(g, spec.Endpoints[1]) = Registry(g)[n]
              /\ pc = "endpoints" /\ n \notin DOMAIN Registry(g) /\ Terminated =>
                   err = errUnknownDefinitionWithName(g, n)

C1_Witness ==
    /\ Returned
    /\ DocEndpoints = <<RefEndpoint("conditions", "b")>>
    /\ Len(spec.Endpoints[1].Conditions) = 2
    /\ spec.Endpoints[1].Conditions = spec.Definitions.Conditions["b"]

----------------------------------------------------------------------------
(* C2: a condition of the source+checks shape whose `checks` is the empty  *)
(* array makes Parse fail, as it does when `checks` is absent, whereas a   *)
(* filter with a source and an empty `steps` array is accepted and yields  *)
(* a Filter with no steps.                                                 *)
emptyChecksCondition == MapN([source |-> StrN("role"), checks |-> SeqN(<<>>)])
absentChecksCondition == MapN([source |-> StrN("role")])
emptyStepsFilter == MapN([source |-> StrN("s"), steps |-> SeqN(<<>>)])

C2_EmptyChecksRejected ==
    /\ \A c \in {emptyChecksCondition, absentChecksCondition} :
         /\ DocEndpoints = <<EndpointWith("conditions", SeqN(<<c>>))>> => ~Returned
         /\ \A name \in DOMAIN DocDefinitions("conditions") :
              DocDefinitions("conditions")[name] = SeqN(<<c>>) =>
                  name \notin DOMAIN Registry("conditions")
    /\ DocEndpoints = <<EndpointWith("filters", SeqN(<<emptyStepsFilter>>))>> /\ Terminated =>
         /\ Returned
         /\ spec.Endpoints[1].Filters = <<[Source |-> "s", Target |-> "", Steps |-> <<>>]>>

----------------------------------------------------------------------------
(* C3: for a document without $ref, Parse is a structural translation:     *)
(* every recognized field of the input (the strings of an endpoint; the    *)
(* status, format, body and headers of a response) has the same value in   *)
(* the output, and every absent optional field has its zero value.         *)
StringField(m, key) == IF key \in DOMAIN m THEN m[key].sv ELSE ""
IntField(m, key) == IF key \in DOMAIN m THEN m[key].iv ELSE 0
HeadersField(m) ==
    IF "headers" \in DOMAIN m
    THEN [h \in DOMAIN m["headers"].m |->
             [i \in 1..Len(m["headers"].m[h].items) |-> m["headers"].m[h].items[i].sv]]
    ELSE nilHeaders

TranslatedResponse(m) ==
    [Status |-> IntField(m, "status"), Format |-> StringField(m, "format"),
     Headers |-> HeadersField(m), Body |-> StringField(m, "body")]

C3_StructuralTranslation ==
    Returned =>
        /\ \A name \in DOMAIN DocDefinitions("responses") :
             "$ref" \notin DOMAIN DocDefinitions("responses")[name].m =>
                 Registry("responses")[name] =
                     TranslatedResponse(DocDefinitions("responses")[name].m)
        /\ \A i \in 1..Len(DocEndpoints) :
             LET rEndpoint == DocEndpoints[i].m
                 endpoint == spec.Endpoints[i] IN
             /\ endpoint.Description = StringField(rEndpoint, "description")
             /\ endpoint.Host = StringField(rEndpoint, "host")
             /\ endpoint.Method = StringField(rEndpoint, "method")
             /\ endpoint.Path = StringField(rEndpoint, "path")
             /\ endpoint.BodyFormat = StringField(rEndpoint, "bodyFormat")
             /\ "filters" \notin DOMAIN rEndpoint => endpoint.Filters = <<>>
             /\ "conditions" \notin DOMAIN rEndpoint => endpoint.Conditions = <<>>
             /\ "endpoints" \notin DOMAIN rEndpoint => endpoint.Endpoints = <<>>
             /\ "response" \notin DOMAIN rEndpoint => endpoint.Response = nilResponse
             /\ "response" \in DOMAIN rEndpoint =>
                  ("$ref" \notin DOMAIN rEndpoint["response"].m =>
                       endpoint.Response =
                           PtrTo(TranslatedResponse(rEndpoint["response"].m)))

----------------------------------------------------------------------------
(* C4: when the `headers` of a response is not a mapping, or a header's    *)
(* value is not a sequence, or an element of it is not a string, Parse     *)
(* returns the invalid-input error: it does not panic and returns no Spec. *)
BadHeaders(m) ==
    /\ "headers" \in DOMAIN m
    /\ \/ m["headers"].t # "map"
       \/ \E h \in DOMAIN m["headers"].m :
            \/ m["headers"].m[h].t # "seq"
            \/ \E i \in 1..Len(m["headers"].m[h].items) :
                 m["headers"].m[h].items[i].t # "str"

C4_BadHeadersError ==
    \A i \in 1..Len(DocEndpoints) :
        (/\ i = 1
         /\ DocEndpoints[i].t = "map"
         /\ DOMAIN DocEndpoints[i].m = {"response"}
         /\ DocEndpoints[i].m["response"].t = "map"
         /\ "$ref" \notin DOMAIN DocEndpoints[i].m["response"].m
         /\ BadHeaders(DocEndpoints[i].m["response"].m))
        => /\ ~Returned
           /\ pc = "endpoints" /\ Terminated => err = errInvalidInput

----------------------------------------------------------------------------
(* C5: the shape of a condition mapping is decided by the first present of *)
(* $ref, any, all, source+checks, and the keys after it are not read: the  *)
(* result is that of the mapping cut down to the deciding key.  A mapping  *)
(* with `any` and `all` yields one Condition with Any built from `any` and *)
(* All, Source and Checks empty; one with `$ref` yields the registry's     *)
(* conditions whatever its other keys.                                     *)
DecidingKeys(m) ==
    IF "$ref" \in DOMAIN m THEN {"$ref"}
    ELSE IF "any" \in DOMAIN m THEN {"any"}
    ELSE IF "all" \in DOMAIN m THEN {"all"}
    ELSE {"source", "checks"}

Decisive(m) == [k \in DOMAIN m \cap DecidingKeys(m) |-> m[k]]

\* The document has one endpoint, with one condition item that is a mapping.
HasOnlyCondition ==
    /\ Len(DocEndpoints) = 1
    /\ DocEndpoints[1].t = "map"
    /\ DOMAIN DocEndpoints[1].m = {"conditions", "response"}
    /\ DocEndpoints[1].m["response"] = MapN(EmptyMap)
    /\ DocEndpoints[1].m["conditions"].t = "seq"
    /\ Len(DocEndpoints[1].m["conditions"].items) = 1
    /\ DocEndpoints[1].m["conditions"].items[1].t = "map"

OnlyCondition == DocEndpoints[1].m["conditions"].items[1].m

C5_ShapePrecedence ==
    HasOnlyCondition /\ Terminated /\ pc \in {"endpoints", "done"} =>
        LET decided == createConditions(spec.Definitions, Decisive(OnlyCondition)) IN
        /\ ~Returned => err = decided.err
        /\ Returned =>
             LET conditions == spec.Endpoints[1].Conditions IN
             /\ decided.err = NoErr
             /\ conditions = decided.val
             /\ "$ref" \in DOMAIN OnlyCondition =>
                  conditions = Registry("conditions")[OnlyCondition["$ref"].sv]
             /\ "$ref" \notin DOMAIN OnlyCondition /\ "any" \in DOMAIN OnlyCondition =>
                  /\ Len(conditions) = 1
                  /\ Len(conditions[1].Any) = Len(OnlyCondition["any"].items)
                  /\ conditions[1].All = <<>>
                  /\ conditions[1].Source = ""
                  /\ conditions[1].Checks = <<>>
             /\ {"$ref", "any"} \cap DOMAIN OnlyCondition = {}
                    /\ "all" \in DOMAIN OnlyCondition =>
                  /\ Len(conditions) = 1
                  /\ Len(conditions[1].All) = Len(OnlyCondition["all"].items)
                  /\ conditions[1].Any = <<>>
                  /\ conditions[1].Source = ""
                  /\ conditions[1].Checks = <<>>

C5_Witness ==
    /\ Returned
    /\ HasOnlyCondition
    /\ {"any", "all", "source", "checks"} \subseteq DOMAIN OnlyCondition
    /\ Len(OnlyCondition["all"].items) = 2
    /\ Len(spec.Endpoints[1].Conditions[1].Any) = 1
    /\ spec.Endpoints[1].Conditions[1].All = <<>>

----------------------------------------------------------------------------
(* C6: in a returned Spec every Endpoint, at every depth, has a non-empty  *)
(* Endpoints list or a Response; an endpoint with no `response` and with   *)
(* `endpoints` absent or empty makes Parse fail, one with a `response` and *)
(* `endpoints: []` is accepted.                                            *)
RECURSIVE EndpointsComplete(_)
EndpointsComplete(endpoints) ==
    \A i \in 1..Len(endpoints) :
        /\ Len(endpoints[i].Endpoints) > 0 \/ endpoints[i].Response # nilResponse
        /\ EndpointsComplete(endpoints[i].Endpoints)

C6_EndpointComplete ==
    /\ Returned => EndpointsComplete(spec.Endpoints)
    /\ \A e \in {MapN(EmptyMap), MapN([endpoints |-> SeqN(<<>>)])} :
         DocEndpoints = <<e>> =>
             /\ ~Returned
             /\ pc = "endpoints" /\ Terminated => err = errInvalidInput
    /\ DocEndpoints = <<MapN([endpoints |-> SeqN(<<>>)] @@ validEndpoint)>>
           /\ pc \in {"endpoints", "done"} /\ Terminated =>
         /\ Returned
         /\ spec.Endpoints[1].Endpoints = <<>>
         /\ spec.Endpoints[1].Response # nilResponse

\* A Spec with an endpoint two levels down that has only a response, next to
\* one that has only sub-endpoints.
C6_Witness ==
    /\ Returned
    /\ Len(spec.Endpoints) = 1
    /\ spec.Endpoints[1].Response = nilResponse
    /\ Len(spec.Endpoints[1].Endpoints) = 1
    /\ Len(spec.Endpoints[1].Endpoints[1].Endpoints) = 1
    /\ spec.Endpoints[1].Endpoints[1].Endpoints[1].Endpoints = <<>>
    /\ spec.Endpoints[1].Endpoints[1].Endpoints[1].Response # nilResponse

----------------------------------------------------------------------------
(* Runs of Parse on the document under every iteration order.              *)

\* The iteration orders of the maps of the document: one order of the
\* entries of each namespace, and one of the header names.
IterationOrders ==
    [steps : Orders(DOMAIN DocDefinitions("steps")),
     filters : Orders(DOMAIN DocDefinitions("filters")),
     conditions : Orders(DOMAIN DocDefinitions("conditions")),
     responses : Orders(DOMAIN DocDefinitions("responses")),
     headers : Orders(HeaderNames)]

\* The outcome of the run that has ended in this state.
Outcome == [err |-> err, val |-> spec]

\* Two outcomes are structurally equal: both are the same Spec, or both are
\* failures.
SameOutcome(x, y) ==
    IF x.err = NoErr THEN y.err = NoErr /\ x.val = y.val ELSE y.err # NoErr

\* The failure of a reference to a name that the document defines in the
\* namespace of the reference.
FailedOnDefined(x) ==
    /\ x.err.kind = "unknown"
    /\ x.err.ref \in DOMAIN DocDefinitions(x.err.group)

(* C7 as stated: two runs of Parse on the same document, under any two map *)
(* iteration orders, end with structurally equal outcomes.                 *)
C7_Deterministic ==
    Terminated => \A orders \in IterationOrders :
                      SameOutcome(Outcome, ParseWith(input, orders))

(* C7, amended: two runs of Parse on the same document under any two map   *)
(* iteration orders both return equal Specs, or neither returns a Spec, or *)
(* one returns a Spec and the other fails with unknown-definition for a    *)
(* name that the document defines in the namespace of the reference.       *)
C7_DeterministicButSiblings ==
    Terminated => \A orders \in IterationOrders :
                      \/ SameOutcome(Outcome, ParseWith(input, orders))
                      \/ Returned /\ FailedOnDefined(ParseWith(input, orders))
                      \/ FailedOnDefined(Outcome) /\ ParseWith(input, orders).err = NoErr

\* A run that returned a Spec with two responses, one a reference to the
\* other, on a document on which the run in the other order fails.
C7_Witness ==
    /\ Returned
    /\ DOMAIN Registry("responses") = {"a", "b"}
    /\ DocDefinitions("responses")["a"] = RefBody("responses", "b")
    /\ Registry("responses")["a"] = Registry("responses")["b"]
    /\ \E orders \in IterationOrders : FailedOnDefined(ParseWith(input, orders))
    /\ \E orders \in IterationOrders : ParseWith(input, orders) = Outcome

----------------------------------------------------------------------------
(* C8: the registry is populated in the order steps, filters, conditions,  *)
(* responses and wholly before the endpoints are built: a namespace is     *)
(* empty until its turn and holds every entry of the document after it, so *)
(* that under every iteration order a reference to a name the document     *)
(* defines fails with unknown-definition only while the namespace of the   *)
(* reference is itself being populated: never from a filter definition to  *)
(* a step, and never from an endpoint.                                     *)
PhaseRank ==
    CASE pc = "Parse" -> 0
      [] pc \in {"steps", "fillStepsMap"} -> 1
      [] pc \in {"filters", "fillFiltersMap"} -> 2
      [] pc \in {"conditions", "fillConditionsMap"} -> 3
      [] pc \in {"responses", "fillResponsesMap"} -> 4
      [] pc \in {"endpoints", "done"} -> 5

GroupRank(g) ==
    CASE g = "steps" -> 1
      [] g = "filters" -> 2
      [] g = "conditions" -> 3
      [] g = "responses" -> 4

\* A filter definition whose steps are a reference to the step n.
FilterOfStep(n) ==
    SeqN(<<MapN([source |-> StrN("s"), steps |-> SeqN(<<Ref(n)>>)])>>)

C8_PopulationOrder ==
    /\ \A g \in GroupNames :
         /\ PhaseRank < GroupRank(g) => Registry(g) = EmptyMap
         /\ PhaseRank > GroupRank(g) => DOMAIN Registry(g) = DOMAIN DocDefinitions(g)
    /\ pc # "done" => spec.Endpoints = <<>>
    /\ FailedOnDefined(Outcome) => pc = LoopOf(err.group)
    /\ \A n \in DOMAIN DocDefinitions("steps"), f \in DOMAIN DocDefinitions("filters") :
         DocDefinitions("filters")[f] = FilterOfStep(n) /\ f \in DOMAIN Registry("filters") =>
             Registry("filters")[f][1].Steps = Registry("steps")[n]
    /\ \A g \in GroupNames : \A n \in DOMAIN DocDefinitions(g) :
         DocEndpoints = <<RefEndpoint(g, n)>> /\ pc = "endpoints" => err = NoErr

\* A returned Spec with a filter definition that refers to one step and an
\* endpoint that refers to another.
C8_Witness ==
    /\ Returned
    /\ DOMAIN Registry("steps") = {"a", "b"}
    /\ DocDefinitions("filters") = [a |-> FilterOfStep("a")]
    /\ DocEndpoints = <<RefEndpoint("steps", "b")>>
    /\ Registry("filters")["a"][1].Steps = Registry("steps")["a"]
    /\ spec.Endpoints[1].Filters[1].Steps = Registry("steps")["b"]

----------------------------------------------------------------------------
(* C9: a definition A that is a reference to a reference-free definition B *)
(* of the same namespace: when A is built first Parse fails with the       *)
(* unknown-definition error for B; when B is stored first that error does  *)
(* not arise, A holds B's values, and Parse succeeds if B and the rest are *)
(* valid.  A definition that is a reference to itself is never stored:     *)
(* Parse fails under every order, and with the unknown-definition error    *)
(* for that name when it is this definition that is being built.           *)
RECURSIVE HasRef(_)
HasRef(node) ==
    CASE node.t = "map" -> "$ref" \in DOMAIN node.m \/ \E k \in DOMAIN node.m : HasRef(node.m[k])
      [] node.t = "seq" -> \E i \in 1..Len(node.items) : HasRef(node.items[i])
      [] OTHER -> FALSE

\* In the namespace g the document defines A as a reference to B, and B
\* without any reference.
Siblings(g, A, B) ==
    /\ DOMAIN DocDefinitions(g) = {A, B}
    /\ A # B
    /\ DocDefinitions(g)[A] = RefBody(g, B)
    /\ ~HasRef(DocDefinitions(g)[B])

\* The entries of the namespace g of a Spec.
EntriesOf(s, g) ==
    CASE g = "steps" -> s.Definitions.Steps
      [] g = "filters" -> s.Definitions.Filters
      [] g = "conditions" -> s.Definitions.Conditions
      [] g = "responses" -> s.Definitions.Responses

C9_SiblingOrder ==
    Terminated => \A g \in GroupNames :
        /\ \A A, B \in Names : Siblings(g, A, B) =>
             \A orders \in IterationOrders :
                 LET r == ParseWith(input, orders) IN
                 /\ orders[g] = <<A, B>> => r.err = errUnknownDefinitionWithName(g, B)
                 /\ orders[g] = <<B, A>> =>
                      /\ r.err # errUnknownDefinitionWithName(g, B)
                      /\ r.err = NoErr => EntriesOf(r.val, g)[A] = EntriesOf(r.val, g)[B]
                      /\ (/\ DocDefinitions(g)[B] = validDefinitions[g].m["a"]
                          /\ DocEndpoints \in {<<>>, <<RefEndpoint(g, A)>>,
                                                <<RefEndpoint(g, B)>>})
                         => r.err = NoErr
        /\ \A A \in DOMAIN DocDefinitions(g) : DocDefinitions(g)[A] = RefBody(g, A) =>
             /\ ~Returned
             /\ A \notin DOMAIN Registry(g)
             /\ \A orders \in IterationOrders : ParseWith(input, orders).err # NoErr
             /\ (pc = LoopOf(g) /\ todo = {A}) => err = errUnknownDefinitionWithName(g, A)

\* A run that stored B and then A on a document where the other order
\* fails, in the namespace of the conditions.
C9_Witness ==
    /\ Returned
    /\ Siblings("conditions", "a", "b")
    /\ Registry("conditions")["a"] = Registry("conditions")["b"]
    /\ \E orders \in IterationOrders :
         ParseWith(input, orders).err = errUnknownDefinitionWithName("conditions", "b")

----------------------------------------------------------------------------
(* C10: in a returned Spec every Condition of the registry and of every    *)
(* endpoint, at every depth, has exactly one shape: Any non-empty with     *)
(* All, Source and Checks empty; or All non-empty with Any, Source and     *)
(* Checks empty; or Source non-empty with Any and All empty.               *)
ShapesOf(c) ==
    {shape \in {"any", "all", "source"} :
        CASE shape = "any" ->
               c.Any # <<>> /\ c.All = <<>> /\ c.Source = "" /\ c.Checks = <<>>
          [] shape = "all" ->
               c.All # <<>> /\ c.Any = <<>> /\ c.Source = "" /\ c.Checks = <<>>
          [] shape = "source" ->
               c.Source # "" /\ c.Any = <<>> /\ c.All = <<>>}

RECURSIVE ConditionsShaped(_)
ConditionsShaped(conditions) ==
    \A i \in 1..Len(conditions) :
        /\ Cardinality(ShapesOf(conditions[i])) = 1
        /\ ConditionsShaped(conditions[i].Any)
        /\ ConditionsShaped(conditions[i].All)

RECURSIVE EndpointsShaped(_)
EndpointsShaped(endpoints) ==
    \A i \in 1..Len(endpoints) :
        /\ ConditionsShaped(endpoints[i].Conditions)
        /\ EndpointsShaped(endpoints[i].Endpoints)

C10_ConditionShape ==
    Returned =>
        /\ \A name \in DOMAIN Registry("conditions") :
             ConditionsShaped(Registry("conditions")[name])
        /\ EndpointsShaped(spec.Endpoints)

\* A returned Spec whose endpoint has an Any condition over an All condition
\* over a condition obtained through a reference.
C10_Witness ==
    /\ Returned
    /\ "a" \in DOMAIN Registry("conditions")
    /\ Len(spec.Endpoints) = 1
    /\ Len(spec.Endpoints[1].Conditions) = 1
    /\ spec.Endpoints[1].Conditions[1].Any # <<>>
    /\ spec.Endpoints[1].Conditions[1].Any[1].All = Registry("conditions")["a"]
    /\ Registry("conditions")["a"][1].Source # ""

----------------------------------------------------------------------------
(* C11: a list of filter items or of condition items that is present and   *)
(* empty is rejected wherever Parse reads it: no Spec is returned for a    *)
(* document with `filters: []` or `conditions: []` in an endpoint, with    *)
(* `any: []` or `all: []` in a condition, or with a definition of a step,  *)
(* a filter or a condition that is `[]`; such a definition is never stored *)
(* and the failure is the invalid-input error.  An endpoint without        *)
(* `filters` and `conditions`, `endpoints: []` next to a response, and a   *)
(* filter with `steps: []` are accepted.                                   *)
EmptyList == SeqN(<<>>)

\* The condition item holds an empty `any` or `all` where createConditions
\* reads it.
RECURSIVE EmptyInCondition(_)
EmptyInCondition(node) ==
    /\ node.t = "map"
    /\ "$ref" \notin DOMAIN node.m
    /\ LET key == IF "any" \in DOMAIN node.m THEN "any" ELSE "all" IN
       /\ key \in DOMAIN node.m
       /\ node.m[key].t = "seq"
       /\ \/ node.m[key] = EmptyList
          \/ \E i \in 1..Len(node.m[key].items) : EmptyInCondition(node.m[key].items[i])

\* The endpoint holds an empty list of filter or condition items.
RECURSIVE EmptyInEndpoint(_)
EmptyInEndpoint(node) ==
    /\ node.t = "map"
    /\ \/ \E key \in {"filters", "conditions"} \cap DOMAIN node.m : node.m[key] = EmptyList
       \/ /\ "conditions" \in DOMAIN node.m
          /\ node.m["conditions"].t = "seq"
          /\ \E i \in 1..Len(node.m["conditions"].items) :
                 EmptyInCondition(node.m["conditions"].items[i])
       \/ /\ "endpoints" \in DOMAIN node.m
          /\ node.m["endpoints"].t = "seq"
          /\ \E i \in 1..Len(node.m["endpoints"].items) :
                 EmptyInEndpoint(node.m["endpoints"].items[i])

\* The namespaces whose entries are lists of items.
ListGroups == {"steps", "filters", "conditions"}

EmptyInDefinitions ==
    \/ \E g \in ListGroups : \E name \in DOMAIN DocDefinitions(g) :
           DocDefinitions(g)[name] = EmptyList
    \/ \E name \in DOMAIN DocDefinitions("conditions") :
           /\ DocDefinitions("conditions")[name].t = "seq"
           /\ \E i \in 1..Len(DocDefinitions("conditions")[name].items) :
                  EmptyInCondition(DocDefinitions("conditions")[name].items[i])

\* Endpoints with one empty list, and those the claim says are accepted.
EmptyListEndpoints ==
    {EndpointWith(key, EmptyList) : key \in {"filters", "conditions"}} \cup
    {EndpointWith("conditions", SeqN(<<MapN(key :> EmptyList)>>)) : key \in {"any", "all"}}

C11_EmptyListsRejected ==
    /\ (EmptyInDefinitions \/ \E i \in 1..Len(DocEndpoints) : EmptyInEndpoint(DocEndpoints[i]))
         => ~Returned
    /\ \A g \in ListGroups : \A name \in DOMAIN DocDefinitions(g) :
         DocDefinitions(g)[name] = EmptyList =>
             /\ name \notin DOMAIN Registry(g)
             /\ (pc = LoopOf(g) /\ todo = {name} /\ Terminated) => err = errInvalidInput
    /\ (DocEndpoints # <<>> /\ DocEndpoints[1] \in EmptyListEndpoints
            /\ pc = "endpoints" /\ Terminated)
         => err = errInvalidInput
    /\ (Len(DocEndpoints) = 1 /\ pc \in {"endpoints", "done"} /\ Terminated) =>
         /\ DocEndpoints[1] = MapN(validEndpoint) =>
              /\ Returned
              /\ spec.Endpoints[1].Filters = <<>>
              /\ spec.Endpoints[1].Conditions = <<>>
         /\ DocEndpoints[1] = MapN([endpoints |-> EmptyList] @@ validEndpoint) =>
              Returned /\ spec.Endpoints[1].Endpoints = <<>>
         /\ DocEndpoints[1] = EndpointWith("filters", SeqN(<<emptyStepsFilter>>)) =>
              /\ Returned
              /\ Len(spec.Endpoints[1].Filters) = 1
              /\ spec.Endpoints[1].Filters[1].Steps = <<>>

\* Parse has failed on an endpoint whose `filters` is the empty list, after
\* the registry was populated.
C11_Witness ==
    /\ DocEndpoints = <<EndpointWith("filters", EmptyList)>>
    /\ DOMAIN Registry("filters") # {}
    /\ pc = "endpoints"
    /\ err = errInvalidInput

====
